---- MODULE Spec2Model ----
(***************************************************************************)
(* A model of the session-scoped, content-addressed metadata store,        *)
(* Backend/app/store/session_store.py (class SessionStore), over a model   *)
(* of the Redis commands it issues, and of its callers: the tools          *)
(* SessionRetrievalTool and ContextChainBuilderTool and the socket event   *)
(* handlers of Backend/app/socket_events.py.  Every client runs the public *)
(* methods of SessionStore one Redis round trip at a time; a pipeline      *)
(* (MULTI/EXEC) is one round trip.  Time advances by Tick, which also      *)
(* removes the keys whose TTL has run out.                                 *)
(***************************************************************************)
EXTENDS Integers, Sequences, FiniteSets, TLC

\* redis: the keys of the Redis database; now: the clock; pc, call, local, ret:
\* each client's position, arguments, local variables and last result.
\* last_store is a history variable: the session and hash of the last
\* store_image_metadata pipeline, and whether the hash was in the index already.
\* sio: the session id saved for each socket (sio.save_session), "" for none;
\* a client of the store is also a socket of the transport layer.
VARIABLES redis, now, pc, call, local, ret, last_store, sio
vars == <<redis, now, pc, call, local, ret, last_store, sio>>

(***************************************************************************)
(* Bounds of the model.                                                    *)
(***************************************************************************)
MaxTime == 4

\* SessionStore.__init__(session_ttl=...), in ticks of the model clock.
session_ttl == 2

Clients == {"c1", "c2"}
SessionIds == {"s1", "s2"}
ImageData == {"b1", "b2", "b3"}
ContextKeys == {"history"}

(***************************************************************************)
(* Python values: a string, None, an int, or a (one-entry) dict.           *)
(***************************************************************************)
PyStr(s) == [t |-> "str", k |-> "", v |-> s]
PyInt(s) == [t |-> "int", k |-> "", v |-> s]
PyNone == [t |-> "none", k |-> "", v |-> ""]
PyDict(key, val) == [t |-> "dict", k |-> key, v |-> val]

EmptyMap == [x \in {} |-> ""]

MetaExif == ("exif" :> PyDict("Make", "Canon"))
MetaIptc == ("iptc" :> PyDict("By", "Ann"))
MetaHash == ("exif" :> PyDict("Make", "Canon")) @@ ("hash" :> PyStr("dup"))
\* A string value that is the text of a JSON number.
MetaStr == ("exif" :> PyDict("Make", "Canon")) @@ ("note" :> PyStr("12"))
MetadataMaps == {MetaExif, MetaIptc, MetaHash, MetaStr, EmptyMap}

ContextData == {PyStr("q1"), PyNone}

\* Every Python value the model uses; json_loads searches it.
PyValues ==
    {PyNone, PyStr("q1"), PyStr("dup"), PyStr("12"), PyInt("12"),
     PyDict("Make", "Canon"), PyDict("By", "Ann"), PyDict("note", "12"),
     PyDict("comment", "Placeholder for validation"),
     PyDict("comment", "Placeholder for validation - no client metadata")}

(***************************************************************************)
(* hashlib.sha256(image_data).hexdigest(): collision-free on ImageData.    *)
(* "h0" is the digest of no uploaded image.                                *)
(***************************************************************************)
Digests == {"h0", "h1", "h2", "h3"}

\* A digest that changes with the time of the call (a salted hash).
sha256_salted(image_data) ==
    IF now % 2 = 0 THEN "h0"
    ELSE CASE image_data = "b1" -> "h1"
           [] image_data = "b2" -> "h2"
           [] OTHER -> "h3"

sha256(image_data) ==
    CASE image_data = "b1" -> "h1"
      [] image_data = "b2" -> "h2"
      [] OTHER -> "h3"

\* The lexicographic order of the digests (Redis breaks score ties by member).
LexRank(h) ==
    CASE h = "h0" -> 0
      [] h = "h1" -> 1
      [] h = "h2" -> 2
      [] OTHER -> 3

(***************************************************************************)
(* json.dumps and json.loads on the values of the model.                   *)
(***************************************************************************)
json_dumps(value) ==
    CASE value.t = "dict" -> "{\"" \o value.k \o "\": \"" \o value.v \o "\"}"
      [] value.t = "str" -> "\"" \o value.v \o "\""
      [] value.t = "int" -> value.v
      [] OTHER -> "null"

\* json.loads(text) raises JSONDecodeError when no value has this text.
JsonValid(text) == \E value \in PyValues : json_dumps(value) = text
json_loads(text) == CHOOSE value \in PyValues : json_dumps(value) = text

(***************************************************************************)
(* Key names.                                                              *)
(***************************************************************************)
_session_key(session_id) == "imca:session:" \o session_id
_upload_order_key(session_id) == _session_key(session_id) \o ":upload_order"
metadata_key(image_hash) == "metadata:" \o image_hash

Keys ==
    {_session_key(s) : s \in SessionIds}
        \cup {_upload_order_key(s) : s \in SessionIds}
        \cup {metadata_key(h) : h \in Digests}

(***************************************************************************)
(* Redis.  A key holds a hash (field -> string) or a sorted set            *)
(* (member -> score); exp is the time the key expires at, 0 for never.     *)
(***************************************************************************)
\* A key that holds nothing.  Of a session record the model remembers why it
\* holds nothing: never written ("none"), its TTL ran out ("expired"), or a DEL
\* removed it ("deleted").  Redis treats the three alike.
Gone(kind) == [kind |-> kind, hash |-> EmptyMap, zset |-> EmptyMap, exp |-> 0]
NoKey == Gone("none")
SessionKeys == {_session_key(s) : s \in SessionIds}
GoneAs(key, kind) == IF key \in SessionKeys THEN Gone(kind) ELSE NoKey


Exists(db, key) == db[key].kind \in {"hash", "zset"}

\* HSET key field value [field value ...]: sets the fields named, keeps the
\* other fields and the TTL of an existing hash.
HSet(db, key, mapping) ==
    [db EXCEPT ![key] =
        [kind |-> "hash",
         hash |-> [f \in DOMAIN db[key].hash \cup DOMAIN mapping |->
                      IF f \in DOMAIN mapping THEN mapping[f] ELSE db[key].hash[f]],
         zset |-> EmptyMap,
         exp |-> db[key].exp]]

\* EXPIRE key seconds: no effect on a key that does not exist.
Expire(db, key, seconds, t) ==
    IF Exists(db, key) THEN [db EXCEPT ![key].exp = t + seconds] ELSE db

\* ZADD key score member: adds the member or updates its score.
ZAdd(db, key, member, score) ==
    [db EXCEPT ![key] =
        [kind |-> "zset",
         hash |-> EmptyMap,
         zset |-> [m \in DOMAIN db[key].zset \cup {member} |->
                      IF m = member THEN score ELSE db[key].zset[m]],
         exp |-> db[key].exp]]

Delete(db, key) ==
    IF Exists(db, key) THEN [db EXCEPT ![key] = GoneAs(key, "deleted")] ELSE db

HGetAll(db, key) == db[key].hash

\* ZSCORE key member: the score, or None (0 here: scores are times >= 1).
ZScore(db, key, member) ==
    IF member \in DOMAIN db[key].zset THEN db[key].zset[member] ELSE 0

ZBefore(zset, a, b) ==
    \/ zset[a] < zset[b]
    \/ zset[a] = zset[b] /\ LexRank(a) < LexRank(b)

RECURSIVE ZSorted(_, _)
ZSorted(zset, members) ==
    IF members = {} THEN <<>>
    ELSE LET first == CHOOSE a \in members :
                          \A b \in members \ {a} : ZBefore(zset, a, b)
         IN <<first>> \o ZSorted(zset, members \ {first})

\* ZRANGE key 0 -1: the members by ascending score.
ZRange(db, key) == ZSorted(db[key].zset, DOMAIN db[key].zset)

\* The keys whose TTL has run out at time t are gone.
Expired(db, t) ==
    [key \in Keys |->
        IF db[key].exp # 0 /\ db[key].exp <= t THEN GoneAs(key, "expired") ELSE db[key]]

(***************************************************************************)
(* Errors.  An exception is a record; _handle_errors maps what the method  *)
(* raised to what the caller receives.                                     *)
(***************************************************************************)
NoError == [cls |-> "", code |-> "", severity |-> ""]
SessionStoreError(code, severity) ==
    [cls |-> "SessionStoreError", code |-> code, severity |-> severity]

\* The except clauses of the wrapper, in order: RedisError, JSONDecodeError,
\* Exception.  SessionStoreError is neither of the first two.
_handle_errors(e) ==
    CASE e.cls = "RedisError" -> SessionStoreError("REDIS_OPERATION_FAILED", "critical")
      [] e.cls = "JSONDecodeError" -> SessionStoreError("INVALID_JSON_DATA", "error")
      [] OTHER -> SessionStoreError("UNEXPECTED_ERROR", "error")

\* A call: the method, its arguments, and the time it was made at.
NoCall ==
    [op |-> "", session_id |-> "", image_data |-> "", metadata |-> EmptyMap,
     image_hash |-> "", context_key |-> "", context_data |-> PyNone, index |-> 0,
     query |-> "", payload |-> "", at |-> 0]
NoRet == [status |-> "", error |-> NoError, raised |-> NoError, value |-> <<>>]

\* The method returned value.
Returned(value) == [status |-> "ok", error |-> NoError, raised |-> NoError, value |-> value]
\* The method raised e: the caller receives _handle_errors(e).
Raised(e) == [status |-> "error", error |-> _handle_errors(e), raised |-> e, value |-> <<>>]

Init ==
    /\ redis = [key \in Keys |-> NoKey]
    /\ now = 1
    /\ pc = [c \in Clients |-> "idle"]
    /\ call = [c \in Clients |-> NoCall]
    /\ local = [c \in Clients |-> <<>>]
    /\ ret = [c \in Clients |-> NoRet]
    /\ last_store = [session_id |-> "", image_data |-> "", image_hash |-> "", again |-> FALSE]
    /\ sio = [c \in Clients |-> ""]

\* A client starts a method: its arguments are recorded, its last result forgotten.
Start(c, args, next) ==
    /\ pc[c] = "idle"
    /\ call' = [call EXCEPT ![c] = [args EXCEPT !.at = now]]
    /\ pc' = [pc EXCEPT ![c] = next]
    /\ ret' = [ret EXCEPT ![c] = NoRet]
    /\ local' = [local EXCEPT ![c] = <<>>]

\* A client starts a method that raises at once.
StartRaise(c, args, e) ==
    /\ pc[c] = "idle"
    /\ call' = [call EXCEPT ![c] = [args EXCEPT !.at = now]]
    /\ pc' = pc
    /\ ret' = [ret EXCEPT ![c] = Raised(e)]
    /\ local' = [local EXCEPT ![c] = <<>>]

\* A client starts a call that returns at once.
StartReturn(c, args, value) ==
    /\ pc[c] = "idle"
    /\ call' = [call EXCEPT ![c] = [args EXCEPT !.at = now]]
    /\ pc' = pc
    /\ ret' = [ret EXCEPT ![c] = Returned(value)]
    /\ local' = [local EXCEPT ![c] = <<>>]

Finish(c, result) ==
    /\ pc' = [pc EXCEPT ![c] = "idle"]
    /\ ret' = [ret EXCEPT ![c] = result]
    /\ local' = [local EXCEPT ![c] = <<>>]
    /\ call' = call

SessionNotFound == SessionStoreError("SESSION_NOT_FOUND", "error")

(***************************************************************************)
(* create_session                                                          *)
(***************************************************************************)
create_session(c, session_id) ==
    LET args == [NoCall EXCEPT !.op = "create_session", !.session_id = session_id]
    IN /\ IF Exists(redis, _session_key(session_id))
          THEN StartRaise(c, args, SessionStoreError("SESSION_ALREADY_EXISTS", "error"))
          ELSE Start(c, args, "create_session_pipe")
       /\ UNCHANGED <<redis, now, last_store, sio>>

\* Lines 91-98; created_at is datetime.utcnow().isoformat().
CreatePipeline(db, session_id, t) ==
    Expire(HSet(db, _session_key(session_id), ("created_at" :> ToString(t))),
           _session_key(session_id), session_ttl, t)

create_session_pipe(c) ==
    /\ pc[c] = "create_session_pipe"
    /\ redis' = CreatePipeline(redis, call[c].session_id, now)
    /\ Finish(c, Returned(<<>>))
    /\ UNCHANGED <<now, last_store, sio>>

(***************************************************************************)
(* store_image_metadata                                                    *)
(***************************************************************************)
required_sections == {"exif", "iptc", "xmp"}
_validate_metadata(metadata) == required_sections \cap DOMAIN metadata # {}

\* Lines 121-128: dict and list values as JSON text, None as '', the rest str().
SerializeValue(value) ==
    CASE value.t = "dict" -> json_dumps(value)
      [] value.t = "none" -> ""
      [] OTHER -> value.v
serialized_metadata(metadata) ==
    [key \in DOMAIN metadata |-> SerializeValue(metadata[key])]

\* Lines 176-181 and 215-219: json.loads(value), the string itself when that fails.
DeserializeValue(text) == IF JsonValid(text) THEN json_loads(text) ELSE PyStr(text)
deserialized_metadata(data) == [key \in DOMAIN data |-> DeserializeValue(data[key])]

\* A store that writes the metadata record before it validates the metadata.
store_image_metadata_writes_first(c, session_id, image_data, metadata) ==
    LET args == [NoCall EXCEPT !.op = "store_image_metadata", !.session_id = session_id,
                               !.image_data = image_data, !.metadata = metadata,
                               !.image_hash = sha256(image_data)]
    IN /\ IF ~Exists(redis, _session_key(session_id))
          THEN StartRaise(c, args, SessionNotFound) /\ redis' = redis
          ELSE IF ~_validate_metadata(metadata)
          THEN /\ StartRaise(c, args, SessionStoreError("INVALID_METADATA", "warning"))
               /\ redis' = HSet(redis, metadata_key(sha256(image_data)),
                                ("filename" :> "a.jpg"))
          ELSE Start(c, args, "store_image_metadata_pipe") /\ redis' = redis
       /\ UNCHANGED <<now, last_store, sio>>

store_image_metadata(c, session_id, image_data, metadata) ==
    LET args == [NoCall EXCEPT !.op = "store_image_metadata", !.session_id = session_id,
                               !.image_data = image_data, !.metadata = metadata,
                               !.image_hash = sha256(image_data)]
    IN /\ IF ~Exists(redis, _session_key(session_id))
          THEN StartRaise(c, args, SessionNotFound)
          ELSE IF ~_validate_metadata(metadata)
          THEN StartRaise(c, args, SessionStoreError("INVALID_METADATA", "warning"))
          ELSE Start(c, args, "store_image_metadata_pipe")
       /\ UNCHANGED <<redis, now, last_store, sio>>

\* A store that gives the record the TTL of the session.
StorePipeline_same_ttl(db, session_id, image_hash, mapping, t) ==
    LET d1 == HSet(db, metadata_key(image_hash), mapping)
        d2 == Expire(d1, metadata_key(image_hash), session_ttl, t)
        d3 == ZAdd(d2, _upload_order_key(session_id), image_hash, t)
        d4 == Expire(d3, _upload_order_key(session_id), session_ttl, t)
    IN Expire(d4, _session_key(session_id), session_ttl, t)

\* The pipeline of lines 130-145, executed as one MULTI/EXEC.
StorePipeline(db, session_id, image_hash, mapping, t) ==
    LET d1 == HSet(db, metadata_key(image_hash), mapping)
        d2 == Expire(d1, metadata_key(image_hash), session_ttl * 2, t)
        d3 == ZAdd(d2, _upload_order_key(session_id), image_hash, t)
        d4 == Expire(d3, _upload_order_key(session_id), session_ttl, t)
    IN Expire(d4, _session_key(session_id), session_ttl, t)

store_image_metadata_pipe(c) ==
    /\ pc[c] = "store_image_metadata_pipe"
    /\ redis' = StorePipeline(redis, call[c].session_id, call[c].image_hash,
                              serialized_metadata(call[c].metadata), now)
    /\ last_store' = [session_id |-> call[c].session_id,
                      image_data |-> call[c].image_data,
                      image_hash |-> call[c].image_hash,
                      again |-> call[c].image_hash
                                   \in DOMAIN redis[_upload_order_key(call[c].session_id)].zset]
    /\ Finish(c, Returned(call[c].image_hash))
    /\ UNCHANGED <<now, sio>>

(***************************************************************************)
(* get_image_metadata                                                      *)
(***************************************************************************)
get_image_metadata(c, session_id, image_hash) ==
    LET args == [NoCall EXCEPT !.op = "get_image_metadata", !.session_id = session_id,
                               !.image_hash = image_hash]
    IN /\ IF ~Exists(redis, _session_key(session_id))
          THEN StartRaise(c, args, SessionNotFound)
          ELSE Start(c, args, "get_image_metadata_zscore")
       /\ UNCHANGED <<redis, now, last_store, sio>>

\* The check asks for the record, not for the session's association.
InSessionIndex_global(db, session_id, image_hash) ==
    Exists(db, metadata_key(image_hash))

\* Line 159: "if not conn.zscore(...)".
InSessionIndex(db, session_id, image_hash) ==
    ZScore(db, _upload_order_key(session_id), image_hash) # 0

get_image_metadata_zscore(c) ==
    /\ pc[c] = "get_image_metadata_zscore"
    /\ IF ~InSessionIndex(redis, call[c].session_id, call[c].image_hash)
       THEN Finish(c, Raised(SessionStoreError("IMAGE_NOT_IN_SESSION", "error")))
       ELSE /\ pc' = [pc EXCEPT ![c] = "get_image_metadata_hgetall"]
            /\ UNCHANGED <<call, local, ret>>
    /\ UNCHANGED <<redis, now, last_store, sio>>

get_image_metadata_hgetall(c) ==
    /\ pc[c] = "get_image_metadata_hgetall"
    /\ LET metadata == HGetAll(redis, metadata_key(call[c].image_hash))
       IN IF DOMAIN metadata = {}
          THEN Finish(c, Raised(SessionStoreError("METADATA_NOT_FOUND", "warning")))
          ELSE Finish(c, Returned(deserialized_metadata(metadata)))
    /\ UNCHANGED <<redis, now, last_store, sio>>

(***************************************************************************)
(* get_session_images and _batch_get_metadata                              *)
(***************************************************************************)
get_session_images(c, session_id) ==
    LET args == [NoCall EXCEPT !.op = "get_session_images", !.session_id = session_id]
    IN /\ IF ~Exists(redis, _session_key(session_id))
          THEN StartRaise(c, args, SessionNotFound)
          ELSE Start(c, args, "get_session_images_zrange")
       /\ UNCHANGED <<redis, now, last_store, sio>>

get_session_images_zrange(c) ==
    /\ pc[c] = "get_session_images_zrange"
    /\ local' = [local EXCEPT ![c] = ZRange(redis, _upload_order_key(call[c].session_id))]
    /\ pc' = [pc EXCEPT ![c] = "_batch_get_metadata"]
    /\ UNCHANGED <<redis, now, call, ret, last_store, sio>>

Range(seq) == {seq[i] : i \in 1..Len(seq)}

RECURSIVE Orders(_)
\* Every sequence that lists each element of the set once.
Orders(S) ==
    IF S = {} THEN {<<>>}
    ELSE UNION {{<<x>> \o rest : rest \in Orders(S \ {x})} : x \in S}

\* Line 203, list(set(hashes)): the set's iteration order is that of the string
\* hashes of the process, any order of the distinct elements.
ListOfSet(hashes) == Orders(Range(hashes))

\* Line 220: {"hash": h, **deserialized_data}; a key of the data replaces "hash".
ImageRecord(h, data) ==
    LET fields == deserialized_metadata(data)
    IN [f \in {"hash"} \cup DOMAIN fields |->
           IF f \in DOMAIN fields THEN fields[f] ELSE PyStr(h)]

\* A listing that keeps a record, with nothing but the hash, for a missing one.
processed_results_padded(db, unique_hashes) ==
    [i \in 1..Len(unique_hashes) |->
        ImageRecord(unique_hashes[i], HGetAll(db, metadata_key(unique_hashes[i])))]

RECURSIVE processed_results(_, _)
\* Lines 211-221: one record per hash whose HGETALL result is not empty.
processed_results(db, unique_hashes) ==
    IF unique_hashes = <<>> THEN <<>>
    ELSE LET h == Head(unique_hashes)
             data == HGetAll(db, metadata_key(h))
         IN (IF DOMAIN data = {} THEN <<>> ELSE <<ImageRecord(h, data)>>)
                \o processed_results(db, Tail(unique_hashes))

_batch_get_metadata(c) ==
    /\ pc[c] = "_batch_get_metadata"
    /\ \E unique_hashes \in ListOfSet(local[c]) :
           Finish(c, Returned(processed_results(redis, unique_hashes)))
    /\ UNCHANGED <<redis, now, last_store, sio>>

(***************************************************************************)
(* update_session_context and get_session_context                          *)
(***************************************************************************)
\* One field for every context key.
ctx_field_shared(context_key) == "ctx:"

ctx_field(context_key) == "ctx:" \o context_key

update_session_context(c, session_id, context_key, context_data) ==
    LET args == [NoCall EXCEPT !.op = "update_session_context", !.session_id = session_id,
                               !.context_key = context_key, !.context_data = context_data]
    IN /\ IF ~Exists(redis, _session_key(session_id))
          THEN StartRaise(c, args, SessionNotFound)
          ELSE Start(c, args, "update_session_context_hset")
       /\ UNCHANGED <<redis, now, last_store, sio>>

update_session_context_hset(c) ==
    /\ pc[c] = "update_session_context_hset"
    /\ redis' = HSet(redis, _session_key(call[c].session_id),
                     (ctx_field(call[c].context_key) :> json_dumps(call[c].context_data)))
    /\ pc' = [pc EXCEPT ![c] = "update_session_context_expire"]
    /\ UNCHANGED <<now, call, local, ret, last_store, sio>>

\* A renewal that, like touch_session, also renews the index.
update_session_context_expire_both(c) ==
    /\ pc[c] = "update_session_context_expire"
    /\ redis' = Expire(Expire(redis, _session_key(call[c].session_id), session_ttl, now),
                       _upload_order_key(call[c].session_id), session_ttl, now)
    /\ Finish(c, Returned(<<>>))
    /\ UNCHANGED <<now, last_store, sio>>

update_session_context_expire(c) ==
    /\ pc[c] = "update_session_context_expire"
    /\ redis' = Expire(redis, _session_key(call[c].session_id), session_ttl, now)
    /\ Finish(c, Returned(<<>>))
    /\ UNCHANGED <<now, last_store, sio>>

get_session_context(c, session_id, context_key) ==
    LET args == [NoCall EXCEPT !.op = "get_session_context", !.session_id = session_id,
                               !.context_key = context_key]
    IN /\ IF ~Exists(redis, _session_key(session_id))
          THEN StartRaise(c, args, SessionNotFound)
          ELSE Start(c, args, "get_session_context_hget")
       /\ UNCHANGED <<redis, now, last_store, sio>>

\* Line 260: json.loads(data) if data else None.
get_session_context_hget(c) ==
    /\ pc[c] = "get_session_context_hget"
    /\ LET fields == HGetAll(redis, _session_key(call[c].session_id))
           f == ctx_field(call[c].context_key)
       IN IF f \notin DOMAIN fields \/ fields[f] = ""
          THEN Finish(c, Returned(PyNone))
          ELSE IF JsonValid(fields[f])
          THEN Finish(c, Returned(json_loads(fields[f])))
          ELSE Finish(c, Raised([cls |-> "JSONDecodeError", code |-> "", severity |-> ""]))
    /\ UNCHANGED <<redis, now, last_store, sio>>

(***************************************************************************)
(* touch_session and delete_session                                        *)
(***************************************************************************)
touch_session(c, session_id) ==
    LET args == [NoCall EXCEPT !.op = "touch_session", !.session_id = session_id]
    IN /\ IF ~Exists(redis, _session_key(session_id))
          THEN StartRaise(c, args, SessionNotFound)
          ELSE Start(c, args, "touch_session_expire_session")
       /\ UNCHANGED <<redis, now, last_store, sio>>

touch_session_expire_session(c) ==
    /\ pc[c] = "touch_session_expire_session"
    /\ redis' = Expire(redis, _session_key(call[c].session_id), session_ttl, now)
    /\ pc' = [pc EXCEPT ![c] = "touch_session_expire_order"]
    /\ UNCHANGED <<now, call, local, ret, last_store, sio>>

touch_session_expire_order(c) ==
    /\ pc[c] = "touch_session_expire_order"
    /\ redis' = Expire(redis, _upload_order_key(call[c].session_id), session_ttl, now)
    /\ Finish(c, Returned(<<>>))
    /\ UNCHANGED <<now, last_store, sio>>

delete_session(c, session_id) ==
    LET args == [NoCall EXCEPT !.op = "delete_session", !.session_id = session_id]
    IN /\ IF ~Exists(redis, _session_key(session_id))
          THEN StartRaise(c, args, SessionNotFound)
          ELSE Start(c, args, "delete_session_zrange")
       /\ UNCHANGED <<redis, now, last_store, sio>>

delete_session_zrange(c) ==
    /\ pc[c] = "delete_session_zrange"
    /\ local' = [local EXCEPT ![c] = ZRange(redis, _upload_order_key(call[c].session_id))]
    /\ pc' = [pc EXCEPT ![c] = "delete_session_pipe"]
    /\ UNCHANGED <<redis, now, call, ret, last_store, sio>>

RECURSIVE DeleteAll(_, _)
DeleteAll(db, keys) ==
    IF keys = {} THEN db
    ELSE LET key == CHOOSE k \in keys : TRUE
         IN DeleteAll(Delete(db, key), keys \ {key})

\* A delete that forgets the upload-order index.
DeletePipeline_no_index(db, session_id, image_hashes) ==
    DeleteAll(db, {_session_key(session_id)}
                      \cup {metadata_key(h) : h \in Range(image_hashes)})

\* The pipeline of lines 291-300.
DeletePipeline(db, session_id, image_hashes) ==
    DeleteAll(db, {_session_key(session_id), _upload_order_key(session_id)}
                      \cup {metadata_key(h) : h \in Range(image_hashes)})

delete_session_pipe(c) ==
    /\ pc[c] = "delete_session_pipe"
    /\ redis' = DeletePipeline(redis, call[c].session_id, local[c])
    /\ Finish(c, Returned(<<>>))
    /\ UNCHANGED <<now, last_store, sio>>

(***************************************************************************)
(* Backend failures: a command raises redis.exceptions.RedisError          *)
(* (connection lost, timeout).                                             *)
(***************************************************************************)
RedisError == [cls |-> "RedisError", code |-> "", severity |-> ""]

Methods ==
    {"create_session", "store_image_metadata", "get_image_metadata", "get_session_images",
     "update_session_context", "get_session_context", "touch_session", "delete_session"}

\* The first command of a method, the EXISTS of the session record, fails.
redis_error_exists(c, op, session_id) ==
    /\ StartRaise(c, [NoCall EXCEPT !.op = op, !.session_id = session_id], RedisError)
    /\ UNCHANGED <<redis, now, last_store, sio>>

\* What the command client c is about to send does to the store.
Landed(c) ==
    LET skey == _session_key(call[c].session_id)
    IN CASE pc[c] = "create_session_pipe" -> CreatePipeline(redis, call[c].session_id, now)
         [] pc[c] = "store_image_metadata_pipe" ->
                StorePipeline(redis, call[c].session_id, call[c].image_hash,
                              serialized_metadata(call[c].metadata), now)
         [] pc[c] = "update_session_context_hset" ->
                HSet(redis, skey,
                     (ctx_field(call[c].context_key) :> json_dumps(call[c].context_data)))
         [] pc[c] \in {"update_session_context_expire", "touch_session_expire_session"} ->
                Expire(redis, skey, session_ttl, now)
         [] pc[c] = "touch_session_expire_order" ->
                Expire(redis, _upload_order_key(call[c].session_id), session_ttl, now)
         [] pc[c] = "delete_session_pipe" -> DeletePipeline(redis, call[c].session_id, local[c])
         [] OTHER -> redis

\* The exception of _batch_get_metadata passes its own wrapper (line 200) and
\* then that of get_session_images (line 184).
RaisedNested(e) ==
    [status |-> "error", error |-> _handle_errors(_handle_errors(e)), raised |-> e,
     value |-> <<>>]

\* A later command of a method fails: it did not reach the server, or it was
\* executed and its reply was lost.
redis_error(c) ==
    /\ pc[c] # "idle"
    /\ redis' \in {redis, Landed(c)}
    /\ last_store' =
          IF pc[c] = "store_image_metadata_pipe" /\ redis' # redis
          THEN [session_id |-> call[c].session_id,
                image_data |-> call[c].image_data,
                image_hash |-> call[c].image_hash,
                again |-> call[c].image_hash
                             \in DOMAIN redis[_upload_order_key(call[c].session_id)].zset]
          ELSE last_store
    /\ Finish(c, IF pc[c] = "_batch_get_metadata"
                 THEN RaisedNested(RedisError)
                 ELSE Raised(RedisError))
    /\ UNCHANGED <<now, sio>>

(***************************************************************************)
(* SessionRetrievalTool (Backend/app/tools/session_retrieval_tool.py): the *)
(* actions get_image_by_index and get_image_interaction_context of         *)
(* _run_action.  Both list the session with get_session_images, whose      *)
(* round trips are those of the store, and compute their answer from the   *)
(* list.  The tool returns a dict and raises nothing.                      *)
(***************************************************************************)
RetrievalActions == {"get_image_by_index", "get_image_interaction_context"}

\* The dict the tool returns: lines 202-206.
ToolOk(data) == [success |-> TRUE, data |-> data, error |-> ""]
ToolFail(error) == [success |-> FALSE, data |-> PyNone, error |-> error]

\* dict.get(field): None for a missing key.
Get(img, field) == IF field \in DOMAIN img THEN img[field] ELSE PyNone

\* The truth value of a Python value.
Truthy(value) ==
    CASE value.t = "none" -> FALSE
      [] value.t = "str" -> value.v # ""
      [] value.t = "int" -> value.v # "0"
      [] OTHER -> TRUE

\* images[index] for -len(images) <= index < len(images).
PyItem(images, index) ==
    IF index >= 0 THEN images[index + 1] ELSE images[Len(images) + index + 1]

\* Lines 90-103.
image_by_index(images, index) ==
    IF Len(images) = 0 THEN ToolOk(PyNone)
    ELSE IF -Len(images) <= index /\ index < Len(images)
    THEN ToolOk(PyItem(images, index))
    ELSE ToolFail("out of range")

\* d[key] = value on a dict.
Put(d, key, value) == [x \in DOMAIN d \cup {key} |-> IF x = key THEN value ELSE d[x]]

\* Lines 117-124.
image_sequence(images) ==
    [i \in 1..Len(images) |->
        [id |-> Get(images[i], "hash"),
         original_filename |-> IF "filename" \in DOMAIN images[i]
                               THEN images[i]["filename"] ELSE PyStr("N/A"),
         timestamp |-> IF "upload_timestamp" \in DOMAIN images[i]
                       THEN images[i]["upload_timestamp"] ELSE Get(images[i], "timestamp"),
         order |-> i]]

\* Lines 126-130.
current_image_focus_id(images, image_hash) ==
    IF image_hash # "" /\ \E i \in 1..Len(images) : Get(images[i], "hash") = PyStr(image_hash)
    THEN PyStr(image_hash)
    ELSE IF Len(images) > 0 THEN Get(images[Len(images)], "hash") ELSE PyNone

\* Lines 144-152: the neighbours of the first image that has the focus hash.
NeighbourAliases(al, images, focus) ==
    IF ~Truthy(focus) \/ ~\E i \in 1..Len(images) : Get(images[i], "hash") = focus
    THEN al
    ELSE LET current_idx ==
                 CHOOSE i \in 1..Len(images) :
                     /\ Get(images[i], "hash") = focus
                     /\ \A j \in 1..(i - 1) : Get(images[j], "hash") # focus
             a1 == IF current_idx > 1
                   THEN Put(al, "previous image", Get(images[current_idx - 1], "hash"))
                   ELSE al
         IN IF current_idx < Len(images)
            THEN Put(a1, "next image", Get(images[current_idx + 1], "hash"))
            ELSE a1

\* The dict key a file name makes: the string itself.
AliasKey(value) == IF value.t = "str" THEN value.v ELSE json_dumps(value)

RECURSIVE NumberedAliases(_, _, _)
\* Lines 154-158, from image i on: "image i", "image_i" and the file name, each
\* assignment replacing an alias of the same name.
NumberedAliases(al, images, i) ==
    IF i > Len(images) THEN al
    ELSE LET h == Get(images[i], "hash")
             a1 == Put(al, "image " \o ToString(i), h)
             a2 == Put(a1, "image_" \o ToString(i), h)
             a3 == IF Truthy(Get(images[i], "filename"))
                   THEN Put(a2, AliasKey(images[i]["filename"]), h)
                   ELSE a2
         IN NumberedAliases(a3, images, i + 1)

\* Lines 132-158.
image_aliases(images, image_hash) ==
    IF Len(images) = 0 THEN [x \in {} |-> PyNone]
    ELSE LET focus == current_image_focus_id(images, image_hash)
             last_image_hash == Get(images[Len(images)], "hash")
             first_image_hash == Get(images[1], "hash")
             named == [x \in {"this image", "current image", "latest image",
                              "most recent image", "last image", "first image"} |->
                          CASE x \in {"this image", "current image"} -> focus
                            [] x = "first image" -> first_image_hash
                            [] OTHER -> last_image_hash]
         IN NumberedAliases(NeighbourAliases(named, images, focus), images, 1)

\* Lines 160-165.
image_interaction_context(images, image_hash) ==
    ToolOk([image_sequence |-> image_sequence(images),
            current_image_focus |-> current_image_focus_id(images, image_hash),
            image_aliases |-> image_aliases(images, image_hash),
            total_images_in_session |-> Len(images)])

\* _run_action up to the first round trip of get_session_images: a missing
\* session is a SessionStoreError, which the tool reports by its code (line 192).
_run_action(c, session_id, action, image_hash, index) ==
    LET args == [NoCall EXCEPT !.op = action, !.session_id = session_id,
                               !.image_hash = image_hash, !.index = index]
    IN /\ action \in RetrievalActions
       /\ IF ~Exists(redis, _session_key(session_id))
          THEN StartReturn(c, args, ToolFail(_handle_errors(SessionNotFound).code))
          ELSE Start(c, args, "_run_action_zrange")
       /\ UNCHANGED <<redis, now, last_store, sio>>

\* The ZRANGE of get_session_images (lines 193-197).
_run_action_zrange(c) ==
    /\ pc[c] = "_run_action_zrange"
    /\ local' = [local EXCEPT ![c] = ZRange(redis, _upload_order_key(call[c].session_id))]
    /\ pc' = [pc EXCEPT ![c] = "_run_action_batch"]
    /\ UNCHANGED <<redis, now, call, ret, last_store, sio>>

\* The pipeline of _batch_get_metadata, and the answer computed from its list.
_run_action_batch(c) ==
    /\ pc[c] = "_run_action_batch"
    /\ \E unique_hashes \in ListOfSet(local[c]) :
           LET images == processed_results(redis, unique_hashes)
           IN Finish(c, Returned(IF call[c].op = "get_image_by_index"
                                 THEN image_by_index(images, call[c].index)
                                 ELSE image_interaction_context(images, call[c].image_hash)))
    /\ UNCHANGED <<redis, now, last_store, sio>>

(***************************************************************************)
(* ContextChainBuilderTool (Backend/app/tools/context_chain_builder.py):   *)
(* _run reads the history of the session with get_session_context and     *)
(* builds the summary of the current turn.  The module uses the name       *)
(* datetime (line 132) and imports no such name (lines 1-8), so building   *)
(* the summary raises NameError; _run catches it (line 173) and returns a  *)
(* failure.  The lines after it (137-168) are never executed: the tool     *)
(* sends no update_session_context.                                        *)
(***************************************************************************)
\* default_context_depth, line 52.
context_depth == 3

\* Line 123: isinstance(historical_turns, list).
IsList(value) == value.t = "list"

\* _run up to the first round trip of get_session_context (lines 111-122); a
\* SessionStoreError is reported by its code (line 172).
_run(c, session_id, current_user_query, history_context_key) ==
    LET args == [NoCall EXCEPT !.op = "_run", !.session_id = session_id,
                               !.query = current_user_query,
                               !.context_key = history_context_key]
    IN /\ IF ~Exists(redis, _session_key(session_id))
          THEN StartReturn(c, args, ToolFail(_handle_errors(SessionNotFound).code))
          ELSE Start(c, args, "_run_hget")
       /\ UNCHANGED <<redis, now, last_store, sio>>

\* The HGET of get_session_context, then lines 123-133 and 173-177.
_run_hget(c) ==
    /\ pc[c] = "_run_hget"
    /\ LET fields == HGetAll(redis, _session_key(call[c].session_id))
           f == ctx_field(call[c].context_key)
           stored == IF f \notin DOMAIN fields \/ fields[f] = "" THEN PyNone
                     ELSE IF JsonValid(fields[f]) THEN json_loads(fields[f])
                     ELSE PyNone
           historical_turns == IF Truthy(stored) /\ IsList(stored) THEN stored.v ELSE <<>>
       IN IF f \in DOMAIN fields /\ fields[f] # "" /\ ~JsonValid(fields[f])
          THEN Finish(c, Returned(ToolFail(
                   _handle_errors([cls |-> "JSONDecodeError", code |-> "", severity |-> ""]).code)))
          ELSE Finish(c, Returned(ToolFail("NameError")))
    /\ UNCHANGED <<redis, now, last_store, sio>>

(***************************************************************************)
(* The socket event handlers of Backend/app/socket_events.py.  A handler   *)
(* runs the round trips of the store methods it calls, one step each, and  *)
(* ends by emitting one event to its socket; it raises nothing (every      *)
(* handler catches Exception).  The analysis crew is available.            *)
(***************************************************************************)
\* sio.emit(event, {"code": code, ...}, to=sid); position is that of upload_success.
Emit(event, code, severity) ==
    [event |-> event, code |-> code, severity |-> severity, position |-> 0]

\* handle_session_error, lines 33-40.
handle_session_error(error_code, severity) == Emit("session_error", error_code, severity)

\* Lines 109-112 and 187-190: the session saved for the socket.
NoSession(c) == sio[c] = ""

\* A session_init that saves the id for the socket before it creates the session.
session_init_saves_first(c, session_id) ==
    LET args == [NoCall EXCEPT !.op = "session_init", !.session_id = session_id]
    IN /\ IF Exists(redis, _session_key(session_id))
          THEN StartReturn(c, args, handle_session_error("SESSION_INIT_FAILED", "critical"))
          ELSE Start(c, args, "session_init_pipe")
       /\ sio' = [sio EXCEPT ![c] = session_id]
       /\ UNCHANGED <<redis, now, last_store>>

\* session_init, lines 77-85 and 96-99: create_session's check of the id the
\* client sent; a failure of create_session is reported as SESSION_INIT_FAILED.
session_init(c, session_id) ==
    LET args == [NoCall EXCEPT !.op = "session_init", !.session_id = session_id]
    IN /\ IF Exists(redis, _session_key(session_id))
          THEN StartReturn(c, args, handle_session_error("SESSION_INIT_FAILED", "critical"))
          ELSE Start(c, args, "session_init_pipe")
       /\ UNCHANGED <<redis, now, last_store, sio>>

\* Lines 78-81: the client sent no id and uuid4 makes one, an id no session has.
session_init_uuid4(c) ==
    \E session_id \in SessionIds :
        /\ redis[_session_key(session_id)].kind = "none"
        /\ \A d \in Clients : sio[d] # session_id /\ call[d].session_id # session_id
        /\ Start(c, [NoCall EXCEPT !.op = "session_init", !.session_id = session_id],
                 "session_init_pipe")
        /\ UNCHANGED <<redis, now, last_store, sio>>

\* The pipeline of create_session, then lines 87-93.
session_init_pipe(c) ==
    /\ pc[c] = "session_init_pipe"
    /\ redis' = CreatePipeline(redis, call[c].session_id, now)
    /\ sio' = [sio EXCEPT ![c] = call[c].session_id]
    /\ Finish(c, Returned(Emit("session_ready", "", "")))
    /\ UNCHANGED <<now, last_store>>

\* A one-entry dict of strings as a Python value.
AsPyDict(metadata) ==
    LET key == CHOOSE k \in DOMAIN metadata : TRUE
    IN PyDict(key, metadata[key].v)

\* Lines 119-150.
metadata_to_store(filename, additional_metadata_from_client) ==
    LET merged == [k \in {"filename"} \cup DOMAIN additional_metadata_from_client |->
                      IF k \in DOMAIN additional_metadata_from_client
                      THEN additional_metadata_from_client[k] ELSE PyStr(filename)]
    IN IF required_sections \cap DOMAIN merged = {}
          /\ DOMAIN additional_metadata_from_client # {}
       THEN ("filename" :> PyStr(filename))
                @@ ("client_provided" :> AsPyDict(additional_metadata_from_client))
                @@ ("exif" :> PyDict("comment", "Placeholder for validation"))
       ELSE IF DOMAIN additional_metadata_from_client = {}
       THEN merged @@ ("exif" :> PyDict("comment",
                                        "Placeholder for validation - no client metadata"))
       ELSE merged

\* upload_image up to the first round trip of store_image_metadata (lines
\* 104-157); payload is "ok" for a dict with a file, "bad" otherwise.
upload_image(c, payload, file, filename, metadata) ==
    LET stored == metadata_to_store(filename, metadata)
        args == [NoCall EXCEPT !.op = "upload_image", !.session_id = sio[c],
                               !.payload = payload,
                               !.image_data = IF payload = "ok" THEN file ELSE "",
                               !.metadata = IF payload = "ok" THEN stored ELSE EmptyMap,
                               !.image_hash = IF payload = "ok" THEN sha256(file) ELSE ""]
    IN /\ IF NoSession(c)
          THEN StartReturn(c, args, handle_session_error("NO_SESSION", "warning"))
          ELSE IF payload # "ok"
          THEN StartReturn(c, args, Emit("upload_error", "INVALID_PAYLOAD", ""))
          ELSE IF ~Exists(redis, _session_key(sio[c])) \/ ~_validate_metadata(stored)
          THEN StartReturn(c, args, Emit("upload_error", "UPLOAD_PROCESSING_ERROR", ""))
          ELSE Start(c, args, "upload_image_pipe")
       /\ UNCHANGED <<redis, now, last_store, sio>>

\* The pipeline of store_image_metadata.
upload_image_pipe(c) ==
    /\ pc[c] = "upload_image_pipe"
    /\ redis' = StorePipeline(redis, call[c].session_id, call[c].image_hash,
                              serialized_metadata(call[c].metadata), now)
    /\ last_store' = [session_id |-> call[c].session_id,
                      image_data |-> call[c].image_data,
                      image_hash |-> call[c].image_hash,
                      again |-> call[c].image_hash
                                   \in DOMAIN redis[_upload_order_key(call[c].session_id)].zset]
    /\ pc' = [pc EXCEPT ![c] = "upload_image_exists"]
    /\ UNCHANGED <<now, call, local, ret, sio>>

\* Line 160: the session check of get_session_images.
upload_image_exists(c) ==
    /\ pc[c] = "upload_image_exists"
    /\ IF ~Exists(redis, _session_key(call[c].session_id))
       THEN Finish(c, Returned(Emit("upload_error", "UPLOAD_PROCESSING_ERROR", "")))
       ELSE /\ pc' = [pc EXCEPT ![c] = "upload_image_zrange"]
            /\ UNCHANGED <<call, local, ret>>
    /\ UNCHANGED <<redis, now, last_store, sio>>

upload_image_zrange(c) ==
    /\ pc[c] = "upload_image_zrange"
    /\ local' = [local EXCEPT ![c] = ZRange(redis, _upload_order_key(call[c].session_id))]
    /\ pc' = [pc EXCEPT ![c] = "upload_image_batch"]
    /\ UNCHANGED <<redis, now, call, ret, last_store, sio>>

\* Line 161: the index of the first record with the hash, -1 for none.
position(session_images, image_hash) ==
    IF \E i \in 1..Len(session_images) : Get(session_images[i], "hash") = PyStr(image_hash)
    THEN (CHOOSE i \in 1..Len(session_images) :
              /\ Get(session_images[i], "hash") = PyStr(image_hash)
              /\ \A j \in 1..(i - 1) : Get(session_images[j], "hash") # PyStr(image_hash)) - 1
    ELSE -1

\* The pipeline of _batch_get_metadata, then lines 161-169.
upload_image_batch(c) ==
    /\ pc[c] = "upload_image_batch"
    /\ \E unique_hashes \in ListOfSet(local[c]) :
           LET session_images == processed_results(redis, unique_hashes)
           IN Finish(c, Returned([Emit("upload_success", "", "") EXCEPT
                                     !.position = position(session_images, call[c].image_hash)]))
    /\ UNCHANGED <<redis, now, last_store, sio>>

\* user_question up to its first round trip (lines 182-210): the session check
\* of get_session_images when the question names an image, that of
\* touch_session when it names none.
user_question(c, payload, question, image_hash) ==
    LET args == [NoCall EXCEPT !.op = "user_question", !.session_id = sio[c],
                               !.payload = payload,
                               !.query = IF payload = "ok" THEN question ELSE "",
                               !.image_hash = IF payload = "ok" THEN image_hash ELSE ""]
    IN /\ IF NoSession(c)
          THEN StartReturn(c, args, handle_session_error("NO_SESSION", "warning"))
          ELSE IF payload # "ok"
          THEN StartReturn(c, args, Emit("processing_error", "INVALID_PAYLOAD", ""))
          ELSE IF question = ""
          THEN StartReturn(c, args, Emit("processing_error", "MISSING_PARAMETER", ""))
          ELSE IF ~Exists(redis, _session_key(sio[c]))
          THEN StartReturn(c, args, Emit("processing_error", "ANALYSIS_PIPELINE_FAILURE", ""))
          ELSE IF image_hash # ""
          THEN Start(c, args, "user_question_zrange")
          ELSE Start(c, args, "user_question_expire_session")
       /\ UNCHANGED <<redis, now, last_store, sio>>

user_question_zrange(c) ==
    /\ pc[c] = "user_question_zrange"
    /\ local' = [local EXCEPT ![c] = ZRange(redis, _upload_order_key(call[c].session_id))]
    /\ pc' = [pc EXCEPT ![c] = "user_question_batch"]
    /\ UNCHANGED <<redis, now, call, ret, last_store, sio>>

\* The pipeline of _batch_get_metadata, then lines 206-208.
user_question_batch(c) ==
    /\ pc[c] = "user_question_batch"
    /\ \E unique_hashes \in ListOfSet(local[c]) :
           LET session_images == processed_results(redis, unique_hashes)
           IN IF position(session_images, call[c].image_hash) = -1
              THEN Finish(c, Returned(handle_session_error("IMAGE_NOT_IN_SESSION", "warning")))
              ELSE /\ pc' = [pc EXCEPT ![c] = "user_question_exists"]
                   /\ local' = [local EXCEPT ![c] = <<>>]
                   /\ UNCHANGED <<call, ret>>
    /\ UNCHANGED <<redis, now, last_store, sio>>

\* Line 210: the session check of touch_session.
user_question_exists(c) ==
    /\ pc[c] = "user_question_exists"
    /\ IF ~Exists(redis, _session_key(call[c].session_id))
       THEN Finish(c, Returned(Emit("processing_error", "ANALYSIS_PIPELINE_FAILURE", "")))
       ELSE /\ pc' = [pc EXCEPT ![c] = "user_question_expire_session"]
            /\ UNCHANGED <<call, local, ret>>
    /\ UNCHANGED <<redis, now, last_store, sio>>

user_question_expire_session(c) ==
    /\ pc[c] = "user_question_expire_session"
    /\ redis' = Expire(redis, _session_key(call[c].session_id), session_ttl, now)
    /\ pc' = [pc EXCEPT ![c] = "user_question_expire_order"]
    /\ UNCHANGED <<now, call, local, ret, last_store, sio>>

\* The second EXPIRE of touch_session, then lines 212-246: crew.run returns a
\* result or an error dict, and the handler emits analysis_result for both.
user_question_expire_order(c) ==
    /\ pc[c] = "user_question_expire_order"
    /\ redis' = Expire(redis, _upload_order_key(call[c].session_id), session_ttl, now)
    /\ Finish(c, Returned(Emit("analysis_result", "", "")))
    /\ UNCHANGED <<now, last_store, sio>>

(***************************************************************************)
(* Time                                                                    *)
(***************************************************************************)
Tick ==
    /\ now < MaxTime
    /\ now' = now + 1
    /\ redis' = Expired(redis, now + 1)
    /\ UNCHANGED <<pc, call, local, ret, last_store, sio>>

(***************************************************************************)
(* Spec: one client calls every method; only CreatedIds are ever created,  *)
(* so the other session id is one that was never created.                  *)
(***************************************************************************)
CreatedIds == {"s1"}
SeqImages == {"b1"}
SeqMaps == {MetaExif, MetaIptc, EmptyMap}

Next ==
    \/ \E s \in CreatedIds : create_session("c1", s)
    \/ create_session_pipe("c1")
    \/ \E s \in SessionIds, b \in SeqImages, m \in SeqMaps :
           store_image_metadata("c1", s, b, m)
    \/ store_image_metadata_pipe("c1")
    \/ \E s \in SessionIds, h \in Digests : get_image_metadata("c1", s, h)
    \/ get_image_metadata_zscore("c1")
    \/ get_image_metadata_hgetall("c1")
    \/ \E s \in SessionIds : get_session_images("c1", s)
    \/ get_session_images_zrange("c1")
    \/ _batch_get_metadata("c1")
    \/ \E s \in SessionIds, k \in ContextKeys, d \in ContextData :
           update_session_context("c1", s, k, d)
    \/ update_session_context_hset("c1")
    \/ update_session_context_expire("c1")
    \/ \E s \in SessionIds, k \in ContextKeys : get_session_context("c1", s, k)
    \/ get_session_context_hget("c1")
    \/ \E s \in SessionIds : touch_session("c1", s)
    \/ touch_session_expire_session("c1")
    \/ touch_session_expire_order("c1")
    \/ \E s \in SessionIds : delete_session("c1", s)
    \/ delete_session_zrange("c1")
    \/ delete_session_pipe("c1")
    \/ Tick

Spec == Init /\ [][Next]_vars

(***************************************************************************)
(* SpecOrder: one client uploads up to three images into one session and   *)
(* lists them.                                                             *)
(***************************************************************************)
OrderMaps == {MetaExif, MetaHash}

NextOrder ==
    \/ create_session("c1", "s1")
    \/ create_session_pipe("c1")
    \/ \E b \in ImageData, m \in OrderMaps : store_image_metadata("c1", "s1", b, m)
    \/ store_image_metadata_pipe("c1")
    \/ get_session_images("c1", "s1")
    \/ get_session_images_zrange("c1")
    \/ _batch_get_metadata("c1")
    \/ Tick

SpecOrder == Init /\ [][NextOrder]_vars

(***************************************************************************)
(* SpecShare: one client creates, fills, reads and deletes two sessions    *)
(* that upload the same bytes.                                             *)
(***************************************************************************)
ShareImages == {"b1"}
ShareMaps == {MetaExif, MetaIptc}

NextShare ==
    \/ \E s \in SessionIds : create_session("c1", s)
    \/ create_session_pipe("c1")
    \/ \E s \in SessionIds, b \in ShareImages, m \in ShareMaps :
           store_image_metadata("c1", s, b, m)
    \/ store_image_metadata_pipe("c1")
    \/ \E s \in SessionIds, b \in ShareImages : get_image_metadata("c1", s, sha256(b))
    \/ get_image_metadata_zscore("c1")
    \/ get_image_metadata_hgetall("c1")
    \/ \E s \in SessionIds : delete_session("c1", s)
    \/ delete_session_zrange("c1")
    \/ delete_session_pipe("c1")
    \/ Tick

SpecShare == Init /\ [][NextShare]_vars

(***************************************************************************)
(* SpecDelete: client c1 creates, fills and deletes session s1 while       *)
(* client c2 reads it.                                                     *)
(***************************************************************************)
NextDelete ==
    \/ create_session("c1", "s1")
    \/ create_session_pipe("c1")
    \/ store_image_metadata("c1", "s1", "b1", MetaExif)
    \/ store_image_metadata_pipe("c1")
    \/ delete_session("c1", "s1")
    \/ delete_session_zrange("c1")
    \/ delete_session_pipe("c1")
    \/ get_image_metadata("c2", "s1", "h1")
    \/ get_image_metadata_zscore("c2")
    \/ get_image_metadata_hgetall("c2")
    \/ get_session_images("c2", "s1")
    \/ get_session_images_zrange("c2")
    \/ _batch_get_metadata("c2")
    \/ Tick

SpecDelete == Init /\ [][NextDelete]_vars

(***************************************************************************)
(* SpecOmit: session s1 holds up to two images, one of them also uploaded  *)
(* to session s2; s2 is deleted and s1 is listed.                          *)
(***************************************************************************)
OmitImages == {"b1", "b2"}

NextOmit ==
    \/ \E s \in SessionIds : create_session("c1", s)
    \/ create_session_pipe("c1")
    \/ \E b \in OmitImages : store_image_metadata("c1", "s1", b, MetaExif)
    \/ store_image_metadata("c1", "s2", "b1", MetaExif)
    \/ store_image_metadata_pipe("c1")
    \/ delete_session("c1", "s2")
    \/ delete_session_zrange("c1")
    \/ delete_session_pipe("c1")
    \/ get_session_images("c1", "s1")
    \/ get_session_images_zrange("c1")
    \/ _batch_get_metadata("c1")
    \/ Tick

SpecOmit == Init /\ [][NextOmit]_vars

(***************************************************************************)
(* SpecTrip: one client stores metadata maps for one image and reads them  *)
(* back.                                                                   *)
(***************************************************************************)
TripMaps == {MetaExif, MetaIptc, MetaStr}

NextTrip ==
    \/ create_session("c1", "s1")
    \/ create_session_pipe("c1")
    \/ \E m \in TripMaps : store_image_metadata("c1", "s1", "b1", m)
    \/ store_image_metadata_pipe("c1")
    \/ get_image_metadata("c1", "s1", "h1")
    \/ get_image_metadata_zscore("c1")
    \/ get_image_metadata_hgetall("c1")
    \/ Tick

SpecTrip == Init /\ [][NextTrip]_vars

(***************************************************************************)
(* SpecCtx: one client writes and reads two context keys of one session,   *)
(* which it can delete and create again.                                   *)
(***************************************************************************)
CtxKeys == {"history", "images"}
CtxData == {PyStr("q1"), PyNone, PyDict("Make", "Canon")}

NextCtx ==
    \/ create_session("c1", "s1")
    \/ create_session_pipe("c1")
    \/ \E k \in CtxKeys, d \in CtxData : update_session_context("c1", "s1", k, d)
    \/ update_session_context_hset("c1")
    \/ update_session_context_expire("c1")
    \/ \E k \in CtxKeys : get_session_context("c1", "s1", k)
    \/ get_session_context_hget("c1")
    \/ delete_session("c1", "s1")
    \/ delete_session_zrange("c1")
    \/ delete_session_pipe("c1")
    \/ Tick

SpecCtx == Init /\ [][NextCtx]_vars

(***************************************************************************)
(* SpecCreate: two clients create the same sessions, which one of them can *)
(* delete.                                                                 *)
(***************************************************************************)
NextCreate ==
    \/ \E c \in Clients, s \in SessionIds : create_session(c, s)
    \/ \E c \in Clients : create_session_pipe(c)
    \/ \E s \in SessionIds : delete_session("c1", s)
    \/ delete_session_zrange("c1")
    \/ delete_session_pipe("c1")
    \/ Tick

SpecCreate == Init /\ [][NextCreate]_vars

(***************************************************************************)
(* SpecFail: one client creates, fills, lists and touches one session      *)
(* over a backend whose commands can fail.                                 *)
(***************************************************************************)
FailMaps == {MetaExif, EmptyMap}

NextFail ==
    \/ create_session("c1", "s1")
    \/ create_session_pipe("c1")
    \/ \E m \in FailMaps : store_image_metadata("c1", "s1", "b1", m)
    \/ store_image_metadata_pipe("c1")
    \/ get_image_metadata("c1", "s1", "h1")
    \/ get_image_metadata_zscore("c1")
    \/ get_image_metadata_hgetall("c1")
    \/ get_session_images("c1", "s1")
    \/ get_session_images_zrange("c1")
    \/ _batch_get_metadata("c1")
    \/ touch_session("c1", "s1")
    \/ touch_session_expire_session("c1")
    \/ touch_session_expire_order("c1")
    \/ \E op \in Methods : redis_error_exists("c1", op, "s1")
    \/ redis_error("c1")
    \/ Tick

SpecFail == Init /\ [][NextFail]_vars

(***************************************************************************)
(* SpecJson: the database holds a session record whose ctx:history field   *)
(* was written by another writer than update_session_context (json.dumps   *)
(* writes valid JSON only); one client reads and writes the context.       *)
(***************************************************************************)
StoredTexts == {"", "q1", "{\"Make\"", "\"q1\"", "null"}

InitJson ==
    /\ \E text \in StoredTexts :
           redis = Expire(HSet([key \in Keys |-> NoKey], _session_key("s1"),
                               ("created_at" :> "1") @@ (ctx_field("history") :> text)),
                          _session_key("s1"), session_ttl, 1)
    /\ now = 1
    /\ pc = [c \in Clients |-> "idle"]
    /\ call = [c \in Clients |-> NoCall]
    /\ local = [c \in Clients |-> <<>>]
    /\ ret = [c \in Clients |-> NoRet]
    /\ last_store = [session_id |-> "", image_data |-> "", image_hash |-> "", again |-> FALSE]
    /\ sio = [c \in Clients |-> ""]

NextJson ==
    \/ \E k \in CtxKeys : get_session_context("c1", "s1", k)
    \/ get_session_context_hget("c1")
    \/ \E k \in CtxKeys, d \in CtxData : update_session_context("c1", "s1", k, d)
    \/ update_session_context_hset("c1")
    \/ update_session_context_expire("c1")
    \/ Tick

SpecJson == InitJson /\ [][NextJson]_vars

(***************************************************************************)
(* SpecFrame: one client creates, fills, reads, touches and deletes two     *)
(* sessions that upload the same bytes, with valid and invalid metadata.   *)
(***************************************************************************)
FrameMaps == {MetaExif, EmptyMap}

NextFrame ==
    \/ \E s \in SessionIds : create_session("c1", s)
    \/ create_session_pipe("c1")
    \/ \E s \in SessionIds, m \in FrameMaps : store_image_metadata("c1", s, "b1", m)
    \/ store_image_metadata_pipe("c1")
    \/ \E s \in SessionIds, h \in {"h1", "h2"} : get_image_metadata("c1", s, h)
    \/ get_image_metadata_zscore("c1")
    \/ get_image_metadata_hgetall("c1")
    \/ \E s \in SessionIds : delete_session("c1", s)
    \/ delete_session_zrange("c1")
    \/ delete_session_pipe("c1")
    \/ Tick

SpecFrame == Init /\ [][NextFrame]_vars

(***************************************************************************)
(* SpecUpdate: one client creates two sessions, uploads an image to the    *)
(* first and writes two context keys of it.                                *)
(***************************************************************************)
UpdateData == {PyStr("q1"), PyDict("Make", "Canon")}

NextUpdate ==
    \/ \E s \in SessionIds : create_session("c1", s)
    \/ create_session_pipe("c1")
    \/ store_image_metadata("c1", "s1", "b1", MetaExif)
    \/ store_image_metadata_pipe("c1")
    \/ \E k \in CtxKeys, d \in UpdateData : update_session_context("c1", "s1", k, d)
    \/ update_session_context_hset("c1")
    \/ update_session_context_expire("c1")
    \/ Tick

SpecUpdate == Init /\ [][NextUpdate]_vars

(***************************************************************************)
(* SpecTool: one client creates a session, uploads up to two images and    *)
(* asks SessionRetrievalTool for an image by index and for the aliases.    *)
(***************************************************************************)
ToolImages == {"b1", "b2"}
\* The file name is the client's (socket_events.py line 120).
MetaNamed == ("exif" :> PyDict("Make", "Canon")) @@ ("filename" :> PyStr("image 1"))
ToolMaps == {MetaExif, MetaNamed}
Indices == -3..2
FocusHashes == {"", "h0", "h1"}

NextTool ==
    \/ create_session("c1", "s1")
    \/ create_session_pipe("c1")
    \/ \E b \in ToolImages, m \in ToolMaps : store_image_metadata("c1", "s1", b, m)
    \/ store_image_metadata_pipe("c1")
    \/ \E i \in Indices : _run_action("c1", "s1", "get_image_by_index", "", i)
    \/ \E h \in FocusHashes : _run_action("c1", "s1", "get_image_interaction_context", h, 0)
    \/ _run_action_zrange("c1")
    \/ _run_action_batch("c1")
    \/ Tick

SpecTool == Init /\ [][NextTool]_vars

(***************************************************************************)
(* SpecSocket: one socket initialises a session, with an id of its own     *)
(* choice or a generated one, uploads an image and asks questions.         *)
(***************************************************************************)
Payloads == {"ok", "bad"}
ClientMetadata == {EmptyMap, MetaExif, ("note" :> PyStr("12"))}
Questions == {"", "q1"}
QuestionHashes == {"", "h0", "h1"}

NextSocket ==
    \/ session_init("c1", "s1")
    \/ session_init_uuid4("c1")
    \/ session_init_pipe("c1")
    \/ \E p \in Payloads, m \in ClientMetadata : upload_image("c1", p, "b1", "a.jpg", m)
    \/ upload_image_pipe("c1")
    \/ upload_image_exists("c1")
    \/ upload_image_zrange("c1")
    \/ upload_image_batch("c1")
    \/ \E p \in Payloads, q \in Questions, h \in QuestionHashes :
           user_question("c1", p, q, h)
    \/ user_question_zrange("c1")
    \/ user_question_batch("c1")
    \/ user_question_exists("c1")
    \/ user_question_expire_session("c1")
    \/ user_question_expire_order("c1")
    \/ Tick

SpecSocket == Init /\ [][NextSocket]_vars

(***************************************************************************)
(* SpecInit: two sockets initialise a session with the same id of their    *)
(* choice, upload an image and ask a question.                             *)
(***************************************************************************)
Sockets == {"c1", "c2"}

NextInit ==
    \/ \E c \in Sockets : session_init(c, "s1")
    \/ \E c \in Sockets : session_init_pipe(c)
    \/ \E c \in Sockets : upload_image(c, "ok", "b1", "a.jpg", EmptyMap)
    \/ \E c \in Sockets : upload_image_pipe(c)
    \/ \E c \in Sockets : upload_image_exists(c)
    \/ \E c \in Sockets : upload_image_zrange(c)
    \/ \E c \in Sockets : upload_image_batch(c)
    \/ \E c \in Sockets : user_question(c, "ok", "q1", "")
    \/ \E c \in Sockets : user_question_expire_session(c)
    \/ \E c \in Sockets : user_question_expire_order(c)
    \/ Tick

SpecInit == Init /\ [][NextInit]_vars

(***************************************************************************)
(* SpecChain: one client creates a session, writes its history key and     *)
(* runs ContextChainBuilderTool for two queries.                           *)
(***************************************************************************)
Queries == {"q1", "q2"}

NextChain ==
    \/ create_session("c1", "s1")
    \/ create_session_pipe("c1")
    \/ \E d \in CtxData : update_session_context("c1", "s1", "history", d)
    \/ update_session_context_hset("c1")
    \/ update_session_context_expire("c1")
    \/ \E q \in Queries : _run("c1", "s1", q, "history")
    \/ _run_hget("c1")
    \/ Tick

SpecChain == Init /\ [][NextChain]_vars

(***************************************************************************)
(* The claims.                                                             *)
(***************************************************************************)
\* Client c, idle so far, starts the method named by call'[c] in this step (a
\* method that raises before its second round trip also ends in this step).
Starts(c) ==
    /\ pc[c] = "idle"
    /\ call'[c].op # ""
    /\ <<pc'[c], call'[c], ret'[c]>> # <<pc[c], call[c], ret[c]>>

SessionKind(session_id) == redis[_session_key(session_id)].kind
Index(session_id) == redis[_upload_order_key(session_id)].zset

\* C1: every method other than create_session, called with a session id that
\* was never created, fails with the code SESSION_NOT_FOUND as the caller sees it.
C1_NeverCreatedIsNotFound ==
    \A c \in Clients :
        (/\ call[c].op \notin {"", "create_session"}
         /\ ret[c].status # ""
         /\ SessionKind(call[c].session_id) = "none")
            => ret[c].status = "error" /\ ret[c].error.code = "SESSION_NOT_FOUND"

\* C2: create_session on a session id whose record exists fails with the code
\* SESSION_ALREADY_EXISTS as the caller sees it, and leaves the store unchanged.
C2_CreateExistingFails ==
    [][\A c \in Clients :
          (/\ Starts(c)
           /\ call'[c].op = "create_session"
           /\ Exists(redis, _session_key(call'[c].session_id)))
              => /\ ret'[c].status = "error"
                 /\ ret'[c].error.code = "SESSION_ALREADY_EXISTS"
                 /\ redis' = redis]_vars

\* C6: once the TTL of a session record has run out, every method other than
\* create_session called on it fails with the code SESSION_NOT_FOUND and reads
\* nothing.
C6_ExpiredIsNotFound ==
    [][\A c \in Clients :
          (/\ Starts(c)
           /\ call'[c].op # "create_session"
           /\ SessionKind(call'[c].session_id) = "expired")
              => /\ ret'[c].status = "error"
                 /\ ret'[c].error.code = "SESSION_NOT_FOUND"
                 /\ redis' = redis]_vars

\* C9: the record metadata:{h} is the (serialized) metadata map of one
\* store_image_metadata call; no field of an earlier call survives a later one.
C9_WholeRecordReplace ==
    \A h \in Digests :
        Exists(redis, metadata_key(h))
            => \E m \in MetadataMaps :
                   HGetAll(redis, metadata_key(h)) = serialized_metadata(m)

\* C10: store_image_metadata on an existing session with no recognized section
\* in the metadata fails with the code INVALID_METADATA as the caller sees it,
\* and changes nothing in the store.
C10_InvalidMetadataRejected ==
    [][\A c \in Clients :
          (/\ Starts(c)
           /\ call'[c].op = "store_image_metadata"
           /\ Exists(redis, _session_key(call'[c].session_id))
           /\ DOMAIN call'[c].metadata \cap {"exif", "iptc", "xmp"} = {})
              => /\ ret'[c].status = "error"
                 /\ ret'[c].error.code = "INVALID_METADATA"
                 /\ redis' = redis]_vars

\* get_session_images returned to client c, and the index it read is still there.
Listed(c) ==
    /\ call[c].op = "get_session_images"
    /\ ret[c].status = "ok"
    /\ Exists(redis, _upload_order_key(call[c].session_id))

\* The hash field of the i-th record get_session_images returned to c.
ListedHash(c, i) == ret[c].value[i]["hash"].v

\* Every record returned to c carries the hash of an indexed image.
ListedFromIndex(c) ==
    \A i \in 1..Len(ret[c].value) : ListedHash(c, i) \in DOMAIN Index(call[c].session_id)

\* C3: get_session_images returns the records by ascending insertion timestamp
\* of the upload-order index (A, B, C stored in that order come back as A, B, C).
C3_ListedInUploadOrder ==
    \A c \in Clients :
        (Listed(c) /\ ListedFromIndex(c))
            => \A i, j \in 1..Len(ret[c].value) :
                   i < j => Index(call[c].session_id)[ListedHash(c, i)]
                                <= Index(call[c].session_id)[ListedHash(c, j)]

\* C4: after an indexed image A is stored again, later than every other image
\* of the session, get_session_images returns A last and the other images in
\* their order.
C4_RestoredMovesToEnd ==
    \A c \in Clients :
        LET idx == Index(call[c].session_id)
            a == last_store.image_hash
            n == Len(ret[c].value)
        IN (/\ Listed(c) /\ ListedFromIndex(c)
            /\ last_store.again
            /\ last_store.session_id = call[c].session_id
            /\ a \in DOMAIN idx
            /\ \A h \in DOMAIN idx \ {a} : idx[h] < idx[a]
            /\ n = Cardinality(DOMAIN idx))
               => /\ ListedHash(c, n) = a
                  /\ \A i, j \in 1..(n - 1) :
                         i < j => idx[ListedHash(c, i)] <= idx[ListedHash(c, j)]

\* C8: a session's index holds each image hash once (storing the same bytes
\* again updates the timestamp), so get_session_images never lists the same
\* hash twice.
C8_NoHashListedTwice ==
    \A c \in Clients :
        Listed(c) =>
            /\ Len(ret[c].value) <= Cardinality(DOMAIN Index(call[c].session_id))
            /\ \A i, j \in 1..Len(ret[c].value) :
                   i # j => ret[c].value[i]["hash"] # ret[c].value[j]["hash"]

\* C5: get_image_metadata(Y, h) returns a record only when h is in the index of
\* session Y, and h enters the index of Y only by a store_image_metadata call
\* on Y with bytes of hash h: a hash stored only through session X is never
\* readable through another session Y, though metadata:{h} exists.
C5_Isolation ==
    [][/\ \A c \in Clients :
            (pc'[c] = "get_image_metadata_hgetall" /\ pc[c] # pc'[c])
                => call[c].image_hash \in DOMAIN Index(call[c].session_id)
       /\ \A c \in Clients :
            (/\ call'[c].op = "get_image_metadata"
             /\ ret'[c].status = "ok"
             /\ ret[c] # ret'[c])
                => pc[c] = "get_image_metadata_hgetall"
       /\ \A s \in SessionIds, h \in Digests :
            (h \in DOMAIN redis'[_upload_order_key(s)].zset /\ h \notin DOMAIN Index(s))
                => \E c \in Clients :
                       /\ pc[c] = "store_image_metadata_pipe"
                       /\ pc'[c] = "idle"
                       /\ call[c].session_id = s
                       /\ sha256(call[c].image_data) = h]_vars

\* A read of h1 through s2 was refused as not in the session, while h1 is in
\* the index of s1, its record exists and s2 exists.
C5_Witness ==
    /\ call["c1"].op = "get_image_metadata"
    /\ call["c1"].session_id = "s2"
    /\ call["c1"].image_hash = "h1"
    /\ ret["c1"].raised.code = "IMAGE_NOT_IN_SESSION"
    /\ "h1" \in DOMAIN Index("s1")
    /\ "h1" \notin DOMAIN Index("s2")
    /\ Exists(redis, metadata_key("h1"))
    /\ Exists(redis, _session_key("s2"))

MetadataRecords == {h \in Digests : Exists(redis, metadata_key(h))}

\* C7: the hash store_image_metadata returns depends on the bytes alone (the
\* same as the last store of the same bytes returned, whatever the session and
\* the metadata), and the store holds at most one record per byte content, the
\* one every session that indexes the hash reads.
C7_ContentAddressed ==
    [][\A c \in Clients :
          (/\ pc[c] = "store_image_metadata_pipe"
           /\ pc'[c] = "idle"
           /\ ret'[c].status = "ok")
              => /\ call[c].image_data = last_store.image_data
                        => ret'[c].value = last_store.image_hash
                 /\ ret'[c].value \in DOMAIN redis'[_upload_order_key(call[c].session_id)].zset
                 /\ Exists(redis', metadata_key(ret'[c].value))
                 /\ {h \in Digests : Exists(redis', metadata_key(h))}
                        = MetadataRecords \cup {ret'[c].value}
                 /\ Cardinality(MetadataRecords \cup {ret'[c].value})
                        <= Cardinality(ShareImages)]_vars

\* The same bytes were stored through s1 and through s2, with different
\* metadata: both sessions index h1 and one record holds the fields of both.
C7_Witness ==
    /\ call["c1"].op = "store_image_metadata"
    /\ ret["c1"].status = "ok"
    /\ ret["c1"].value = "h1"
    /\ "h1" \in DOMAIN Index("s1") \cap DOMAIN Index("s2")
    /\ DOMAIN HGetAll(redis, metadata_key("h1")) = {"exif", "iptc"}
    /\ Cardinality(MetadataRecords) = 1

\* C11: the pipeline of delete_session removes the session record and its
\* upload-order index in one step, and no other step of delete_session changes
\* the store, so no state has one of the two keys removed by the delete and the
\* other not; a method other than create_session called on the deleted id
\* fails as on an id that was never created.
C11_DeleteRemovesBoth ==
    [][/\ \A c \in Clients :
            (pc[c] = "delete_session_pipe" /\ pc'[c] = "idle")
                => /\ ~Exists(redis', _session_key(call[c].session_id))
                   /\ ~Exists(redis', _upload_order_key(call[c].session_id))
                   /\ ret'[c].status = "ok"
       /\ \A c \in Clients :
            (/\ call'[c].op = "delete_session"
             /\ pc[c] # pc'[c]
             /\ pc[c] # "delete_session_pipe")
                => redis' = redis
       /\ \A s \in SessionIds :
            (Exists(redis, _session_key(s)) /\ SessionKind(s)' = "deleted")
                => \E c \in Clients :
                       /\ pc[c] = "delete_session_pipe"
                       /\ pc'[c] = "idle"
                       /\ call[c].session_id = s
       /\ \A c \in Clients :
            (/\ Starts(c)
             /\ call'[c].op # "create_session"
             /\ SessionKind(call'[c].session_id) = "deleted")
                => /\ ret'[c] = Raised(SessionNotFound)
                   /\ redis' = redis]_vars

\* Client c1 has deleted s1, which had an image, while client c2 is in the
\* middle of reading s1: both keys are gone.
C11_Witness ==
    /\ call["c1"].op = "delete_session"
    /\ ret["c1"].status = "ok"
    /\ SessionKind("s1") = "deleted"
    /\ ~Exists(redis, _upload_order_key("s1"))
    /\ last_store.session_id = "s1"
    /\ pc["c2"] \in {"get_image_metadata_zscore", "get_session_images_zrange"}

\* C12: delete_session of one session leaves the record metadata:{h} in place
\* while another existing session still has h in its upload-order index.
C12_ReferencedRecordKept ==
    [][\A c \in Clients :
          (pc[c] = "delete_session_pipe" /\ pc'[c] = "idle")
              => \A h \in Digests :
                     (/\ Exists(redis, metadata_key(h))
                      /\ \E s \in SessionIds \ {call[c].session_id} :
                             /\ Exists(redis, _session_key(s))
                             /\ h \in DOMAIN Index(s))
                         => Exists(redis', metadata_key(h))]_vars

\* C13: touch_session called at time t on an existing session resets the TTL of
\* the session record and of its upload-order index, so that neither expires
\* before t + session_ttl: no key of the session expires before that time once
\* the call has found the session, and when the call returns the keys that
\* exist live until t + session_ttl at least.
C13_TouchResetsBoth ==
    [][\A c \in Clients :
          LET skey == _session_key(call[c].session_id)
              okey == _upload_order_key(call[c].session_id)
              until == call[c].at + session_ttl
          IN /\ (/\ call[c].op = "touch_session"
                 /\ pc[c] \in {"touch_session_expire_session", "touch_session_expire_order"}
                 /\ now' # now
                 /\ now' < until)
                    => /\ Exists(redis, skey) => Exists(redis', skey)
                       /\ Exists(redis, okey) => Exists(redis', okey)
             /\ (pc[c] = "touch_session_expire_order" /\ pc'[c] = "idle")
                    => /\ ret'[c].status = "ok"
                       /\ now < until => Exists(redis', skey)
                       /\ Exists(redis', skey) => redis'[skey].exp >= until
                       /\ Exists(redis', okey) => redis'[okey].exp >= until]_vars

\* C14: the upload-order index expires together with the session record: no
\* index runs out of TTL while its session record stays alive.
C14_IndexLivesWithSession ==
    [][\A s \in SessionIds :
          (/\ now' # now
           /\ Exists(redis, _upload_order_key(s))
           /\ ~Exists(redis', _upload_order_key(s)))
              => ~Exists(redis', _session_key(s))]_vars

\* C15: every successful session-scoped method, reads included, renews the TTL
\* of the session record: when it returns, a session record that exists lives
\* until the time of the call plus session_ttl at least.
C15_EveryCallRenews ==
    [][\A c \in Clients :
          (/\ pc[c] # "idle"
           /\ pc'[c] = "idle"
           /\ ret'[c].status = "ok"
           /\ call[c].op \notin {"create_session", "delete_session"}
           /\ Exists(redis', _session_key(call[c].session_id)))
              => redis'[_session_key(call[c].session_id)].exp
                     >= call[c].at + session_ttl]_vars

C17_NotInSessionCode ==
    [][\A c \in Clients :
          (/\ pc[c] = "get_image_metadata_zscore"
           /\ pc'[c] # pc[c]
           /\ call[c].image_hash \notin DOMAIN Index(call[c].session_id))
              => /\ ret'[c].status = "error"
                 /\ ret'[c].error.code = "IMAGE_NOT_IN_SESSION"]_vars

\* C18: get_image_metadata for a hash that is in the session's index while the
\* record metadata:{h} is gone fails with the code METADATA_NOT_FOUND as the
\* caller sees it, and leaves the session as it is.
C18_MissingRecordCode ==
    [][\A c \in Clients :
          (/\ pc[c] = "get_image_metadata_hgetall"
           /\ pc'[c] # pc[c]
           /\ ~Exists(redis, metadata_key(call[c].image_hash)))
              => /\ ret'[c].status = "error"
                 /\ ret'[c].error.code = "METADATA_NOT_FOUND"
                 /\ redis' = redis]_vars

\* C19: get_session_images reads the hashes of the index and returns, without
\* an error, exactly one record for each of them whose record metadata:{h}
\* exists, and nothing for a hash whose record is gone.
C19_MissingRecordsOmitted ==
    [][\A c \in Clients :
          /\ (pc[c] = "get_session_images_zrange" /\ pc'[c] # pc[c])
                 => /\ Range(local'[c]) = DOMAIN Index(call[c].session_id)
                    /\ Len(local'[c]) = Cardinality(DOMAIN Index(call[c].session_id))
          /\ (pc[c] = "_batch_get_metadata" /\ pc'[c] # pc[c])
                 => LET present == {h \in Range(local[c]) : Exists(redis, metadata_key(h))}
                        record(h) == ImageRecord(h, HGetAll(redis, metadata_key(h)))
                    IN /\ ret'[c].status = "ok"
                       /\ Len(ret'[c].value) = Cardinality(present)
                       /\ \A h \in present :
                              \E i \in 1..Len(ret'[c].value) : ret'[c].value[i] = record(h)
                       /\ \A i \in 1..Len(ret'[c].value) :
                              \E h \in present : ret'[c].value[i] = record(h)]_vars

\* The index of s1 holds h1 and h2, the record of h1 is gone (deleted with
\* s2), and the listing of s1 returned the record of h2 alone.
C19_Witness ==
    /\ call["c1"].op = "get_session_images"
    /\ call["c1"].session_id = "s1"
    /\ ret["c1"].status = "ok"
    /\ DOMAIN Index("s1") = {"h1", "h2"}
    /\ ~Exists(redis, metadata_key("h1"))
    /\ Exists(redis, metadata_key("h2"))
    /\ Len(ret["c1"].value) = 1
    /\ ret["c1"].value[1]["hash"] = PyStr("h2")

\* C20: when the record metadata:{h} is the stored form of an accepted metadata
\* map, get_image_metadata returns a map with the same keys, every dict value
\* equal to the one stored and every string value the same string.
C20_RoundTrip ==
    [][\A c \in Clients :
          (pc[c] = "get_image_metadata_hgetall" /\ pc'[c] # pc[c])
              => \A m \in MetadataMaps :
                     (/\ _validate_metadata(m)
                      /\ HGetAll(redis, metadata_key(call[c].image_hash))
                             = serialized_metadata(m))
                         => /\ ret'[c].status = "ok"
                            /\ DOMAIN ret'[c].value = DOMAIN m
                            /\ \A key \in DOMAIN m :
                                   m[key].t \in {"dict", "str"}
                                       => ret'[c].value[key] = m[key]]_vars

\* The ctx:{key} field of a session record: <<FALSE, "">> when it is not set.
CtxField(db, session_id, context_key) ==
    LET fields == HGetAll(db, _session_key(session_id))
    IN IF ctx_field(context_key) \in DOMAIN fields
       THEN <<TRUE, fields[ctx_field(context_key)]>>
       ELSE <<FALSE, "">>

\* C21: update_session_context writes the JSON text of its value under the
\* field of its key and changes the field of no other key; the field of a key
\* changes only by such a write or with the removal of the whole record; a
\* session record that is created has no context field; and
\* get_session_context returns the value whose JSON text the field holds, or
\* null without an error when the field is not set.
C21_ContextRoundTrip ==
    [][/\ \A c \in Clients :
            (pc[c] = "update_session_context_hset" /\ pc'[c] # pc[c])
                => /\ CtxField(redis', call[c].session_id, call[c].context_key)
                          = <<TRUE, json_dumps(call[c].context_data)>>
                   /\ json_loads(json_dumps(call[c].context_data)) = call[c].context_data
                   /\ \A k \in CtxKeys \ {call[c].context_key} :
                          CtxField(redis', call[c].session_id, k)
                              = CtxField(redis, call[c].session_id, k)
       /\ \A s \in SessionIds, k \in CtxKeys :
            CtxField(redis', s, k) # CtxField(redis, s, k)
                => \/ \E c \in Clients :
                          /\ pc[c] = "update_session_context_hset"
                          /\ pc'[c] # pc[c]
                          /\ call[c].session_id = s
                          /\ call[c].context_key = k
                   \/ ~Exists(redis', _session_key(s))
       /\ \A c \in Clients :
            (pc[c] = "create_session_pipe" /\ pc'[c] # pc[c]
             /\ ~Exists(redis, _session_key(call[c].session_id)))
                => \A k \in CtxKeys : ~CtxField(redis', call[c].session_id, k)[1]
       /\ \A c \in Clients :
            (pc[c] = "get_session_context_hget" /\ pc'[c] # pc[c])
                => LET field == CtxField(redis, call[c].session_id, call[c].context_key)
                   IN /\ ret'[c].status = "ok"
                      /\ ret'[c].value = IF field[1] THEN json_loads(field[2]) ELSE PyNone]_vars

\* get_session_context returned the dict written under "history", while
\* "images" holds another value.
C21_Witness ==
    /\ call["c1"].op = "get_session_context"
    /\ call["c1"].context_key = "history"
    /\ ret["c1"].status = "ok"
    /\ ret["c1"].value = PyDict("Make", "Canon")
    /\ CtxField(redis, "s1", "history") = <<TRUE, json_dumps(PyDict("Make", "Canon"))>>
    /\ CtxField(redis, "s1", "images") = <<TRUE, json_dumps(PyStr("q1"))>>

\* C22: of the create_session calls for one session id, at most one succeeds in
\* one life of the session: a call that succeeds finds no record and writes
\* created_at once.
C22_CreatedOnce ==
    [][\A c \in Clients :
          (/\ pc[c] = "create_session_pipe"
           /\ pc'[c] = "idle"
           /\ ret'[c].status = "ok")
              => ~Exists(redis, _session_key(call[c].session_id))]_vars

\* C23: the writes of one method reach the store as one pipeline: between the
\* renewal of the session record TTL and that of the index TTL by
\* touch_session, no other command and no expiry changes the store.
C23_TouchWritesTogether ==
    [][\A c \in Clients :
          (pc[c] = "touch_session_expire_order" /\ pc'[c] = pc[c])
              => redis' = redis]_vars

\* C24: the severity of the error the caller receives is critical for a backend
\* failure, error for a missing session, an image not in the session and a
\* session that exists already, and warning for INVALID_METADATA.
C24_SeverityTaxonomy ==
    \A c \in Clients :
        ret[c].status = "error"
            => /\ ret[c].raised.cls = "RedisError" => ret[c].error.severity = "critical"
               /\ ret[c].raised.code
                      \in {"SESSION_NOT_FOUND", "IMAGE_NOT_IN_SESSION", "SESSION_ALREADY_EXISTS"}
                      => ret[c].error.severity = "error"
               /\ ret[c].raised.code = "INVALID_METADATA"
                      => ret[c].error.severity = "warning"

\* C25: a backend failure in a method reaches the caller as a failure with
\* code REDIS_OPERATION_FAILED and severity critical, also when the commands
\* of the failed round trip were executed.
C25_BackendFailureSurfaced ==
    \A c \in Clients :
        ret[c].raised.cls = "RedisError"
            => /\ ret[c].status = "error"
               /\ ret[c].error.code = "REDIS_OPERATION_FAILED"
               /\ ret[c].error.severity = "critical"

\* C26: get_session_context on an existing session whose ctx:{key} field is set
\* and is not valid JSON fails with the code INVALID_JSON_DATA and the severity
\* error; it returns neither the text nor null.
C26_MalformedJsonFails ==
    [][\A c \in Clients :
          LET field == CtxField(redis, call[c].session_id, call[c].context_key)
          IN (/\ pc[c] = "get_session_context_hget"
              /\ pc'[c] # pc[c]
              /\ field[1]
              /\ ~JsonValid(field[2]))
                 => /\ ret'[c].status = "error"
                    /\ ret'[c].error.code = "INVALID_JSON_DATA"
                    /\ ret'[c].error.severity = "error"]_vars

\* C27: a session created again after its deletion or its expiry is a
\* brand-new session: when create_session returns, the session has no
\* upload-order entry and no context value of its previous life.
C27_RecreatedIsNew ==
    [][\A c \in Clients :
          (/\ pc[c] = "create_session_pipe"
           /\ pc'[c] = "idle"
           /\ ret'[c].status = "ok"
           /\ SessionKind(call[c].session_id) \in {"deleted", "expired"})
              => /\ DOMAIN redis'[_upload_order_key(call[c].session_id)].zset = {}
                 /\ DOMAIN HGetAll(redis', _session_key(call[c].session_id))
                        = {"created_at"}]_vars

\* C28: an upload-order index exists only for a session whose record exists.
C28_IndexOnlyOfSession ==
    \A s \in SessionIds :
        Exists(redis, _upload_order_key(s)) => Exists(redis, _session_key(s))

\* C29: every session record that exists has a created_at field: only
\* create_session brings a session record into existence.
C29_OnlyCreateCreates ==
    \A s \in SessionIds :
        Exists(redis, _session_key(s))
            => "created_at" \in DOMAIN HGetAll(redis, _session_key(s))

\* C30: every record get_session_images returns carries, in its hash field,
\* the hash under which the record is indexed in the session.
C30_RecordCarriesItsHash ==
    [][\A c \in Clients :
          (pc[c] = "_batch_get_metadata" /\ pc'[c] = "idle" /\ ret'[c].status = "ok")
              => \A i \in 1..Len(ret'[c].value) :
                     \E h \in Range(local[c]) :
                         /\ ret'[c].value[i]["hash"] = PyStr(h)
                         /\ \A f \in DOMAIN HGetAll(redis, metadata_key(h)) \ {"hash"} :
                                /\ f \in DOMAIN ret'[c].value[i]
                                /\ ret'[c].value[i][f]
                                       = DeserializeValue(HGetAll(redis, metadata_key(h))[f])]_vars
\* The codes of the errors the methods raise themselves.
DomainCodes ==
    {"SESSION_NOT_FOUND", "SESSION_ALREADY_EXISTS", "IMAGE_NOT_IN_SESSION",
     "METADATA_NOT_FOUND", "INVALID_METADATA"}

\* Client c takes a step of its call: it moves on, starts a call, or is
\* handed a result.
Acts(c) ==
    \/ pc'[c] # pc[c]
    \/ call'[c] # call[c]
    \/ ret'[c].status # ret[c].status
    \/ ret'[c].raised # ret[c].raised

\* C31: a call that ends in a domain error changes nothing in the store, no
\* key, no field and no TTL: neither the round trip that raises the error nor
\* the round trips before it in the same call (get_image_metadata is the only
\* method that raises a domain error after its first round trip).
C31_FailedCallChangesNothing ==
    [][\A c \in Clients :
          /\ (Acts(c) /\ pc'[c] = "idle" /\ ret'[c].raised.code \in DomainCodes)
                 => redis' = redis
          /\ (Acts(c) /\ call'[c].op = "get_image_metadata") => redis' = redis]_vars

\* Invalid metadata was refused for a session that holds an image.
C31_Witness ==
    /\ pc["c1"] = "idle"
    /\ call["c1"].op = "store_image_metadata"
    /\ ret["c1"].raised.code = "INVALID_METADATA"
    /\ Exists(redis, _session_key(call["c1"].session_id))
    /\ "h1" \in DOMAIN Index(call["c1"].session_id)

\* C32: a round trip of update_session_context(s, k, v) changes nothing but
\* the field ctx:k and the TTL of the session record of s: the other fields of
\* the record (created_at, the other context keys), the index of s, the
\* metadata records and the keys of the other sessions stay as they are.
C32_UpdateFrame ==
    [][\A c \in Clients :
          (Acts(c) /\ call'[c].op = "update_session_context")
              => LET skey == _session_key(call'[c].session_id)
                     f == ctx_field(call'[c].context_key)
                 IN /\ \A key \in Keys \ {skey} : redis'[key] = redis[key]
                    /\ DOMAIN redis'[skey].hash \ {f} = DOMAIN redis[skey].hash \ {f}
                    /\ \A g \in DOMAIN redis[skey].hash \ {f} :
                           redis'[skey].hash[g] = redis[skey].hash[g]]_vars

\* update_session_context(s1, "history", v) has succeeded on a session that
\* holds an image and the other context key, next to a second session.
C32_Witness ==
    /\ pc["c1"] = "idle"
    /\ call["c1"].op = "update_session_context"
    /\ call["c1"].session_id = "s1"
    /\ call["c1"].context_key = "history"
    /\ ret["c1"].status = "ok"
    /\ CtxField(redis, "s1", "history") = <<TRUE, json_dumps(call["c1"].context_data)>>
    /\ CtxField(redis, "s1", "images")[1]
    /\ "created_at" \in DOMAIN HGetAll(redis, _session_key("s1"))
    /\ "h1" \in DOMAIN Index("s1")
    /\ Exists(redis, metadata_key("h1"))
    /\ Exists(redis, _session_key("s2"))

\* The tool action of client c has returned, and nothing has happened to the
\* session since the call was made: no time has passed and the session exists.
Answered(c, action) ==
    /\ pc[c] = "idle"
    /\ call[c].op = action
    /\ ret[c].status = "ok"
    /\ call[c].at = now
    /\ Exists(redis, _session_key(call[c].session_id))

\* Hash h is at position p (from 1) of the upload order of index idx; images
\* uploaded at the same time may take each other's position.
AtPosition(idx, h, p) ==
    /\ h \in DOMAIN idx
    /\ Cardinality({g \in DOMAIN idx : idx[g] < idx[h]}) < p
    /\ p <= Cardinality({g \in DOMAIN idx : idx[g] <= idx[h]})

\* C33: in the answer of get_image_interaction_context on a session with
\* images, "first image" and "image 1" name the earliest upload, "last
\* image", "latest image" and "most recent image" the latest one, and "image k"
\* the k-th image in upload order.
C33_AliasesFollowUploadOrder ==
    \A c \in Clients :
        LET idx == Index(call[c].session_id)
            n == Cardinality(DOMAIN idx)
            al == ret[c].value.data.image_aliases
            Names(k) == IF k = 1 THEN {"first image", "image 1"}
                        ELSE {"image " \o ToString(k)}
            LastNames == {"last image", "latest image", "most recent image"}
        IN (Answered(c, "get_image_interaction_context") /\ ret[c].value.success /\ n >= 1)
               => /\ \A k \in 1..n : \A x \in Names(k) :
                         x \in DOMAIN al /\ al[x].t = "str" /\ AtPosition(idx, al[x].v, k)
                  /\ \A x \in LastNames :
                         x \in DOMAIN al /\ al[x].t = "str" /\ AtPosition(idx, al[x].v, n)

\* C34: get_image_by_index on a session with n >= 1 images answers with the
\* image at position index of the upload order when -n <= index < n, counting
\* from the end when index is negative, and fails with an out-of-range error
\* for any other index; on a session with no image it succeeds with data null.
C34_ImageByIndex ==
    \A c \in Clients :
        LET idx == Index(call[c].session_id)
            n == Cardinality(DOMAIN idx)
            index == call[c].index
            answer == ret[c].value
        IN Answered(c, "get_image_by_index")
               => IF n = 0 THEN answer.success /\ answer.data = PyNone
                  ELSE IF -n <= index /\ index < n
                  THEN /\ answer.success
                       /\ answer.data # PyNone
                       /\ Get(answer.data, "hash").t = "str"
                       /\ AtPosition(idx, Get(answer.data, "hash").v,
                                     IF index >= 0 THEN index + 1 ELSE n + index + 1)
                  ELSE ~answer.success /\ answer.error = "out of range"

\* The handler of socket c has returned, having emitted one event.
Handled(c, handlers) ==
    /\ pc[c] = "idle"
    /\ call[c].op \in handlers
    /\ ret[c].status = "ok"

\* C35: when upload_image or user_question returns on a socket with a saved
\* session, the TTL of the session record has been renewed during the
\* handler, also when the handler rejected the action (seen at the time of the
\* call: the record then expires a full session_ttl from now).
C35_EveryActionRenews ==
    \A c \in Clients :
        (/\ Handled(c, {"upload_image", "user_question"})
         /\ ret[c].value.code # "NO_SESSION"
         /\ call[c].at = now
         /\ Exists(redis, _session_key(call[c].session_id)))
            => redis[_session_key(call[c].session_id)].exp = now + session_ttl

\* C36: session_init with an id whose session exists emits session_error
\* SESSION_INIT_FAILED and nothing else, creates nothing and saves no session
\* for the socket; upload_image and user_question on a socket without a saved
\* session are rejected with NO_SESSION and leave the store alone.
C36_ExistingIdNotAttached ==
    [][\A c \in Clients :
          /\ (/\ Acts(c) /\ pc[c] = "idle" /\ call'[c].op = "session_init"
              /\ Exists(redis, _session_key(call'[c].session_id)))
                 => /\ pc'[c] = "idle"
                    /\ ret'[c].value = handle_session_error("SESSION_INIT_FAILED", "critical")
                    /\ sio' = sio
                    /\ redis' = redis
          /\ (/\ Acts(c) /\ pc[c] = "idle" /\ call'[c].op \in {"upload_image", "user_question"}
              /\ sio[c] = "")
                 => /\ pc'[c] = "idle"
                    /\ ret'[c].value = handle_session_error("NO_SESSION", "warning")
                    /\ sio' = sio
                    /\ redis' = redis]_vars

\* Socket c2 asked for the session of socket c1, which holds an image, and
\* was refused: it has no saved session.
C36_Witness ==
    /\ sio["c1"] = "s1"
    /\ Exists(redis, _session_key("s1"))
    /\ "h1" \in DOMAIN Index("s1")
    /\ Handled("c2", {"session_init"})
    /\ call["c2"].session_id = "s1"
    /\ ret["c2"].value.code = "SESSION_INIT_FAILED"
    /\ sio["c2"] = ""

\* C37: when a run of ContextChainBuilderTool on an existing session has
\* returned, the history key of the session holds a list of at least one and
\* at most context_depth turns, the last of which is the query of the run.
C37_HistoryStoredBack ==
    \A c \in Clients :
        (/\ Handled(c, {"_run"})
         /\ call[c].at = now
         /\ Exists(redis, _session_key(call[c].session_id)))
            => LET field == CtxField(redis, call[c].session_id, call[c].context_key)
               IN /\ field[1]
                  /\ JsonValid(field[2])
                  /\ IsList(json_loads(field[2]))
                  /\ LET turns == json_loads(field[2]).v
                     IN /\ Len(turns) >= 1
                        /\ Len(turns) <= context_depth
                        /\ turns[Len(turns)] = call[c].query

====
